---- MODULE Spec2Model ----
(***************************************************************************)
(* Session and credential lifecycle of blog-api: the token codec, the      *)
(* user / token_blacklist / password_reset_token tables, and the HTTP      *)
(* handlers for registration, login, MFA login, recovery login, MFA        *)
(* enrolment, token refresh and password reset.                            *)
(*                                                                         *)
(* Each in-flight HTTP request occupies one slot of Procs.  A handler is   *)
(* one action per stretch of code between two store calls that another     *)
(* request can interleave with; handlers with a single store access are    *)
(* one action.  The store (PostgreSQL) outlives the server process, so     *)
(* Init is a persisted store: rows written before this run are present.    *)
(***************************************************************************)
EXTENDS Integers, Sequences, FiniteSets, TLC

\* ------------------------------------------------------------------ bounds
NumProcs == 2
MaxReqs == 3
MaxTime == 1
MaxUsers == 3
MaxLen == 2

\* ------------------------------------------------------- program constants
AccessTokenExpiry == 15
RefreshTokenExpiry == 17532
RecoveryCodesAmount == 16

RefreshTokenType == "REFRESH"
SigningKey == "SIGNING_KEY"

Procs == 1..NumProcs

\* The persisted store at start holds a session signed one second before
\* the clock's origin and one signed before a refresh lifetime ago.
RecentIat == 0 - 1
AncientIat == -(RefreshTokenExpiry * 3600) - 1

Usernames == {"alice", "bob", "carol"}
Passwords == {"password1", "password2"}
\* A string is the sequence of its bytes; two stand for the 32 of a secret.
TotpSecret == <<"J", "B">>
NewTotpSecret == <<"K", "R">>
Emails == {"alice@example.com", "carol@example.com"}

VARIABLES
    users,      \* "user" table: id -> row, for the ids that have a row
    nextUserId, \* the BIGSERIAL of "user".id
    blacklist,  \* token_blacklist table: set of [user_id, token] rows
    resetTokens,\* password_reset_token table: set of [user_id, token, expiry]
    sessions,   \* <<id, iat>> of every token pair handed to a client
    rng,        \* state of the random source: batches of codes drawn so far
    now,        \* wall clock, whole seconds
    pc,         \* per request slot: position in its handler
    req,        \* per request slot: the handler's locals
    nreq,       \* requests started so far
    last,       \* the request completed last, with its response
    presented,  \* refresh tokens that reached the blacklist lookup before
    redeemed,   \* refresh tokens a refresh has answered with a new pair
    consumed,   \* <<user id, code>> a successful recovery login has used
    spent       \* reset tokens a password reset has reported success with

vars == <<users, nextUserId, blacklist, resetTokens, sessions, rng, now, pc,
          req, nreq, last, presented, redeemed, consumed, spent>>

\* ------------------------------------------------------------- token codec

\* A token string: a header naming the algorithm, a claim set and a
\* signature (the key the signature was made with, by the algorithm the
\* header names), or a string that is none.  Tokens are HS256 unless said
\* otherwise.
Tok(form, id, type, iat, exp, sig) ==
    [form |-> form, alg |-> "HS256", id |-> id, type |-> type, iat |-> iat, exp |-> exp,
     sig |-> sig]
\* The algorithms of the library that verify with a []byte key.
HmacAlgs == {"HS256", "HS384", "HS512"}

\* No token at all (no Authorization header, no request body).
NoTok == Tok("none", 0, "", 0, 0, "")
\* A string without three dot-separated segments.
NoSegments == Tok("nosegments", 0, "", 0, 0, "")
\* Three segments whose header does not decode.
BadHeader == Tok("badheader", 0, "", 0, 0, "")

\* generateAccessToken: claims {ID, ExpiresAt: now+15min, IssuedAt: now},
\* Type left empty, signed HS256 with SIGNING_KEY.
generateAccessToken(id, t) ==
    Tok("jwt", id, "", t, t + AccessTokenExpiry * 60, SigningKey)

\* generateRefreshToken: same with Type = REFRESH and a 17532 h expiry.
generateRefreshToken(id, t) ==
    Tok("jwt", id, RefreshTokenType, t, t + RefreshTokenExpiry * 3600, SigningKey)

\* jwt.ParseWithClaims(tok, &tokenClaims{}, keyFunc) at time t.  A string
\* without three segments yields a nil *Token; an undecodable one a token
\* without claims; otherwise the claims are decoded before the signature
\* and the registered claims (exp, iat) are verified.  The keyFunc returns
\* the signing key as []byte whatever token.Method is, so the signature is
\* verified by the method the header names: the HMAC methods accept the
\* key, the others refuse a []byte key.
ParseWithClaims(tok, t) ==
    CASE tok.form = "nosegments" -> [nil |-> TRUE, hasClaims |-> FALSE, valid |-> FALSE]
      [] tok.form = "badheader" -> [nil |-> FALSE, hasClaims |-> FALSE, valid |-> FALSE]
      [] OTHER -> [nil |-> FALSE, hasClaims |-> TRUE,
                   valid |-> /\ tok.alg \in HmacAlgs /\ tok.sig = SigningKey
                             /\ t < tok.exp /\ tok.iat <= t]

\* parseToken: the parse error is discarded; token.Claims is read.
parseToken(tok, t) ==
    LET r == ParseWithClaims(tok, t) IN
    IF r.nil THEN "panic" ELSE IF ~r.hasClaims THEN "err" ELSE "ok"

\* validateAccessToken: token.Valid, then the claims.
validateAccessToken(tok, t) ==
    LET r == ParseWithClaims(tok, t) IN
    IF r.nil THEN "panic" ELSE IF ~r.valid THEN "err" ELSE "ok"

\* validateRefreshToken: token.Valid, then claims.Type = REFRESH.
validateRefreshToken(tok, t) ==
    LET r == ParseWithClaims(tok, t) IN
    IF r.nil THEN "panic"
    ELSE IF ~r.valid THEN "err"
    ELSE IF tok.type # RefreshTokenType THEN "err"
    ELSE "ok"

\* ------------------------------------------- hasher, cipher, TOTP, codes

\* argon2id.CreateHash: an encoded hash of the password (the salt is not
\* modelled); ComparePasswordAndHash re-derives and compares.
CreateHash(password) == <<"argon2id", password>>
ComparePasswordAndHash(password, hash) == hash = CreateHash(password)

\* AES-GCM as cipher.NewGCM gives it: a 12 byte nonce, a 16 byte tag.  A
\* byte of a sealed blob is a tuple of strings: <<"00">> a zero byte,
\* <<"ctr", i, b>> plaintext byte b under the key stream at position i,
\* <<"tag", j, ...>> byte j of the tag over the nonce and the ciphertext.
\* The tag is unforgeable: it verifies only for the nonce and ciphertext it
\* was computed over.
NonceSize == 12
TagSize == 16
NoSecret == <<>>

\* make([]byte, n): n zero bytes.
make(n) == [i \in 1..n |-> <<"00">>]

RECURSIVE Flat(_)
Flat(bytes) == IF bytes = <<>> THEN <<>> ELSE Head(bytes) \o Flat(Tail(bytes))

gcmTag(nonce, ct) == [j \in 1..TagSize |-> <<"tag", ToString(j)>> \o Flat(nonce \o ct)]

\* gcm.Seal(dst, nonce, plaintext, nil): dst followed by the ciphertext and
\* its tag.
Seal(dst, nonce, plaintext) ==
    LET ct == [i \in 1..Len(plaintext) |-> <<"ctr", ToString(i), plaintext[i]>>]
    IN  dst \o ct \o gcmTag(nonce, ct)

\* gcm.Open(nil, nonce, ciphertext, nil): an error unless the tag verifies.
Open(nonce, ciphertext) ==
    IF Len(ciphertext) < TagSize THEN [ok |-> FALSE, panic |-> FALSE, secret |-> <<>>]
    ELSE LET n == Len(ciphertext) - TagSize
             ct == SubSeq(ciphertext, 1, n)
             tag == SubSeq(ciphertext, n + 1, Len(ciphertext))
         IN  IF tag # gcmTag(nonce, ct) THEN [ok |-> FALSE, panic |-> FALSE, secret |-> <<>>]
             ELSE [ok |-> TRUE, panic |-> FALSE, secret |-> [i \in 1..n |-> ct[i][3]]]

\* encryptMfaSecret with the sealed bytes returned without the nonce
\* (gcm.Seal(nil, nonce, secret, nil)).
encryptMfaSecretNoPrefix(secret) ==
    LET nonce == make(NonceSize) IN Seal(<<>>, nonce, secret)

\* encryptMfaSecret: nonce := make([]byte, NonceSize), never filled, and
\* gcm.Seal(nonce, nonce, secret, nil): the nonce followed by the sealed
\* secret.
encryptMfaSecret(secret) ==
    LET nonce == make(NonceSize) IN Seal(nonce, nonce, secret)

\* decryptMfaSecret: encryptedSecret[:nonceSize] and [nonceSize:] without a
\* length check (a slice bound beyond the length panics), then gcm.Open.
decryptMfaSecret(encryptedSecret) ==
    IF Len(encryptedSecret) < NonceSize
    THEN [ok |-> FALSE, panic |-> TRUE, secret |-> <<>>]
    ELSE Open(SubSeq(encryptedSecret, 1, NonceSize),
              SubSeq(encryptedSecret, NonceSize + 1, Len(encryptedSecret)))

\* totp.Generate / totp.Validate: a code is bound to a secret and a time
\* step of 30 s; Validate accepts the current step and one step either side.
TotpCode(secret, t) == [secret |-> secret, step |-> t \div 30]
StaleTotp(secret) == [secret |-> secret, step |-> 0 - 5]
totpValidate(code, secret, t) ==
    /\ code.secret = secret
    /\ code.step >= (t \div 30) - 1
    /\ code.step <= (t \div 30) + 1

\* randomString: the i-th string of batch b of the random source.
randomString(b, i) == <<b, i>>
WrongCode == randomString(0 - 1, 0)

\* generateRecoveryCodes: for i := 0; i <= RecoveryCodesAmount; i++ appends
\* one random string.
generateRecoveryCodes(b) ==
    [i \in 1..(RecoveryCodesAmount + 1) |-> randomString(b, i - 1)]

\* isRecoveryCodeValid: linear search.
isRecoveryCodeValid(recoveryCode, codes) ==
    \E i \in 1..Len(codes) : codes[i] = recoveryCode

\* removeRecoveryCode: drops the first element equal to r.
removeRecoveryCode(s, r) ==
    IF \E i \in 1..Len(s) : s[i] = r
    THEN LET i == CHOOSE k \in 1..Len(s) :
                      s[k] = r /\ \A j \in 1..(k - 1) : s[j] # r
         IN  SubSeq(s, 1, i - 1) \o SubSeq(s, i + 1, Len(s))
    ELSE s

\* ------------------------------------------------------------------ store

\* handleError as written before sql.ErrNoRows was given an error of its own:
\* a query that finds no row reports no error.
handleErrorNoRowsNil(err) ==
    CASE err = "pq.unique_violation" -> "ErrUniqueViolation"
      [] err = "sql.ErrNoRows" -> "nil"
      [] OTHER -> err

\* handleError: a pq unique violation becomes ErrUniqueViolation,
\* sql.ErrNoRows becomes ErrNotFound, anything else is passed on.
handleError(err) ==
    CASE err = "pq.unique_violation" -> "ErrUniqueViolation"
      [] err = "sql.ErrNoRows" -> "ErrNotFound"
      [] OTHER -> err

\* A store call either runs its statement or fails on the connection
\* (context deadline, lost connection).
DbFault == "db.fault"

UserRow(username, email, password, mfa, role, recovery, active) ==
    [username |-> username, email |-> email, password |-> password,
     mfa_secret |-> mfa, role |-> role, recovery |-> recovery, active |-> active]

\* FindUserByUsername: SELECT ... WHERE username = $1 (username is UNIQUE).
\* 0 stands for the error return (no row).
FindUserByUsername(tbl, username) ==
    IF \E id \in DOMAIN tbl : tbl[id].username = username
    THEN CHOOSE id \in DOMAIN tbl : tbl[id].username = username
    ELSE 0

\* SetRecoveryCodes: UPDATE "user" SET recovery = $1 WHERE id = $2.
SetRecoveryCodes(tbl, userId, codes) ==
    [id \in DOMAIN tbl |-> IF id = userId THEN [tbl[id] EXCEPT !.recovery = codes] ELSE tbl[id]]

\* SetActiveState with the flag flipped instead of set
\* (UPDATE "user" SET active = NOT active WHERE id = $2).
SetActiveStateFlip(tbl, userId, active) ==
    [id \in DOMAIN tbl |-> IF id = userId THEN [tbl[id] EXCEPT !.active = ~@] ELSE tbl[id]]

\* SetActiveState without its WHERE clause (UPDATE "user" SET active = $1).
SetActiveStateAll(tbl, userId, active) ==
    [id \in DOMAIN tbl |-> [tbl[id] EXCEPT !.active = active]]

\* SetActiveState: UPDATE "user" SET active = $1 WHERE id = $2.
SetActiveState(tbl, userId, active) ==
    [id \in DOMAIN tbl |-> IF id = userId THEN [tbl[id] EXCEPT !.active = active] ELSE tbl[id]]

\* InsertMfaSecret: UPDATE "user" SET mfa_secret = $1, recovery = $2 WHERE id = $3.
InsertMfaSecret(tbl, userId, secret, codes) ==
    [id \in DOMAIN tbl |->
        IF id = userId
        THEN [tbl[id] EXCEPT !.mfa_secret = secret, !.recovery = codes]
        ELSE tbl[id]]

\* IsRefreshTokenBlacklisted: SELECT ... WHERE user_id = $1 AND token = $2;
\* any error of the query, sql.ErrNoRows included, is returned through
\* handleError together with false.
IsRefreshTokenBlacklisted(bl, userId, token, fault) ==
    LET err == IF fault THEN DbFault
               ELSE IF [user_id |-> userId, token |-> token] \in bl THEN "nil"
               ELSE "sql.ErrNoRows"
    IN  IF err # "nil" THEN [found |-> FALSE, err |-> handleError(err)]
        ELSE [found |-> TRUE, err |-> "nil"]

\* InsertRefreshToken: INSERT INTO token_blacklist (user_id, token); the
\* foreign key on "user"(id) refuses a row for a user that is gone.
InsertRefreshToken(bl, tbl, row, fault) ==
    LET err == IF fault THEN DbFault
               ELSE IF row.user_id \notin DOMAIN tbl THEN "pq.foreign_key_violation"
               ELSE "nil"
    IN  [bl |-> IF err = "nil" THEN bl \cup {row} ELSE bl, err |-> handleError(err)]

\* InsertUser: INSERT INTO "user" (..., role, active) VALUES (..., normalRole,
\* defaultActiveState) RETURNING id; username and email are UNIQUE.  The
\* driver's error is returned as it is.
InsertUser(tbl, id, username, email, password) ==
    IF \E u \in DOMAIN tbl : tbl[u].username = username \/ tbl[u].email = email
    THEN [users |-> tbl, id |-> 0, err |-> "pq.unique_violation"]
    ELSE [users |-> tbl @@ (id :> UserRow(username, email, password, NoSecret, "normal", <<>>, TRUE)),
          id |-> id, err |-> "nil"]

\* DeleteUserByID with the foreign keys declared without ON DELETE CASCADE
\* and not enforced: the referencing rows stay.
DeleteUserByIDNoCascade(tbl, bl, rts, userId) ==
    [users |-> [id \in DOMAIN tbl \ {userId} |-> tbl[id]], bl |-> bl, rts |-> rts]

\* DeleteUserByID: DELETE FROM "user" WHERE id = $1; the rows of
\* token_blacklist and password_reset_token that reference the user go with
\* it (ON DELETE CASCADE).
DeleteUserByID(tbl, bl, rts, userId) ==
    [users |-> [id \in DOMAIN tbl \ {userId} |-> tbl[id]],
     bl |-> {b \in bl : b.user_id # userId},
     rts |-> {r \in rts : r.user_id # userId}]

\* FindUserByEmail: SELECT ... WHERE email = $1; 0 stands for the error return.
FindUserByEmail(tbl, email) ==
    IF \E id \in DOMAIN tbl : tbl[id].email = email
    THEN CHOOSE id \in DOMAIN tbl : tbl[id].email = email
    ELSE 0

\* SetPassword: UPDATE "user" SET password = $1 WHERE id = $2.
SetPassword(tbl, userId, hash) ==
    [id \in DOMAIN tbl |-> IF id = userId THEN [tbl[id] EXCEPT !.password = hash] ELSE tbl[id]]

\* GetPasswordResetToken: SELECT ... WHERE token = $1, errors through handleError.
NoResetToken == [user_id |-> 0, token |-> <<"prt", 0>>, expiry |-> 0]
GetPasswordResetToken(rts, token) ==
    IF \E r \in rts : r.token = token
    THEN [tok |-> CHOOSE r \in rts : r.token = token, err |-> "nil"]
    ELSE [tok |-> NoResetToken, err |-> handleError("sql.ErrNoRows")]

\* DeletePasswordResetToken: DELETE ... WHERE token = $1.
DeletePasswordResetToken(rts, token) == {r \in rts : r.token # token}

\* DeleteAllPasswordResetTokensForUser without its WHERE clause.
DeleteAllPasswordResetTokens(rts, userId) == {}

\* DeleteAllPasswordResetTokensForUser: DELETE ... WHERE user_id = $1.
DeleteAllPasswordResetTokensForUser(rts, userId) == {r \in rts : r.user_id # userId}

\* ------------------------------------------------------ requests, responses

\* A handler's locals while it is between two store calls.
EmptyReq ==
    [op |-> "", uid |-> 0, rt |-> NoTok, code |-> WrongCode, blk |-> FALSE,
     codes |-> <<>>, first |-> FALSE, late |-> FALSE, fault |-> FALSE,
     username |-> "", password |-> "", prt |-> <<"prt", 0>>]

\* What is recorded of a completed request: its inputs, the response
\* (status, tokens) and what the handler resolved on the way.
NoTotp == [secret |-> <<>>, step |-> 0]
DefaultLast ==
    [seq |-> 0, op |-> "", status |-> "", access |-> NoTok, refresh |-> NoTok,
     uid |-> 0, username |-> "", password |-> "", totp |-> NoTotp,
     bearer |-> NoTok, rt |-> NoTok, code |-> WrongCode, prt |-> <<"prt", 0>>,
     first |-> FALSE, late |-> FALSE, dup |-> FALSE, fault |-> FALSE,
     panic |-> FALSE, msg |-> "", mail |-> FALSE, rows |-> 0, email |-> "",
     target |-> 0, writes |-> <<>>, perr |-> FALSE]

HasTokens(r) == r.access # NoTok \/ r.refresh # NoTok

\* c.JSON(status, ...) without tokens.
Plain(status) == [status |-> status, access |-> NoTok, refresh |-> NoTok, uid |-> 0]
\* badRequestResponse: c.JSON(400, {"error": msg}).
badRequestResponse(msg) == Plain("BadRequest") @@ [msg |-> msg]
\* gin.Recovery: a panicking handler is answered 500.
Panicked == [status |-> "Internal", access |-> NoTok, refresh |-> NoTok, uid |-> 0, panic |-> TRUE]
\* c.JSON(200, {access_token, refresh_token}) with a freshly signed pair.
TokenPair(id, t) ==
    [status |-> "OK", access |-> generateAccessToken(id, t),
     refresh |-> generateRefreshToken(id, t), uid |-> id]

\* ---------------------------------------------------------------- handlers

\* loginUserHandler without the MFA gate.
loginUserHandlerNoGate(tbl, username, password, t, qfault) ==
    LET id == FindUserByUsername(tbl, username) IN
    IF qfault THEN badRequestResponse("incorrect username or password") @@ [fault |-> TRUE]
    ELSE IF id = 0 THEN badRequestResponse("incorrect username or password")
    ELSE IF ~ComparePasswordAndHash(password, tbl[id].password)
    THEN badRequestResponse("incorrect username or password")
    ELSE TokenPair(id, t)

\* loginUserHandler: lookup by username, password check, MFA gate, tokens.
loginUserHandler(tbl, username, password, t, qfault) ==
    LET id == FindUserByUsername(tbl, username) IN
    IF qfault THEN badRequestResponse("incorrect username or password") @@ [fault |-> TRUE]
    ELSE IF id = 0 THEN badRequestResponse("incorrect username or password")
    ELSE IF ~ComparePasswordAndHash(password, tbl[id].password)
    THEN badRequestResponse("incorrect username or password")
    ELSE IF Len(tbl[id].mfa_secret) # 0 THEN [Plain("Found") EXCEPT !.uid = id]
    ELSE TokenPair(id, t)

\* loginUserMfaHandler with the result of totp.Validate ignored.
loginUserMfaHandlerNoCode(tbl, username, password, totp, t, qfault) ==
    LET id == FindUserByUsername(tbl, username) IN
    IF qfault THEN badRequestResponse("incorrect username or password") @@ [fault |-> TRUE]
    ELSE IF id = 0 THEN badRequestResponse("incorrect username or password")
    ELSE IF ~ComparePasswordAndHash(password, tbl[id].password)
    THEN badRequestResponse("incorrect username or password")
    ELSE IF Len(tbl[id].mfa_secret) = 0
    THEN [badRequestResponse("this user doesn't have 2fa enabled") EXCEPT !.uid = id]
    ELSE LET d == decryptMfaSecret(tbl[id].mfa_secret) IN
         IF d.panic THEN Panicked
         ELSE IF ~d.ok THEN Plain("Internal")
         ELSE TokenPair(id, t)

\* loginUserMfaHandler: as login, then requires the MFA secret, decrypts it
\* and validates the submitted code.
loginUserMfaHandler(tbl, username, password, totp, t, qfault) ==
    LET id == FindUserByUsername(tbl, username) IN
    IF qfault THEN badRequestResponse("incorrect username or password") @@ [fault |-> TRUE]
    ELSE IF id = 0 THEN badRequestResponse("incorrect username or password")
    ELSE IF ~ComparePasswordAndHash(password, tbl[id].password)
    THEN badRequestResponse("incorrect username or password")
    ELSE IF Len(tbl[id].mfa_secret) = 0
    THEN [badRequestResponse("this user doesn't have 2fa enabled") EXCEPT !.uid = id]
    ELSE LET d == decryptMfaSecret(tbl[id].mfa_secret) IN
         IF d.panic THEN Panicked
         ELSE IF ~d.ok THEN Plain("Internal")
         ELSE IF ~totpValidate(totp, d.secret, t) THEN [Plain("BadRequest") EXCEPT !.uid = id]
         ELSE TokenPair(id, t)

\* refreshTokenHandler without the comparison of the two subjects: the
\* lookup runs under the access token's id.
refreshTokenLookupNoSubject(bl, bearer, rt, t, fault) ==
    IF bearer.form = "none" THEN Plain("Forbidden") @@ [blk |-> FALSE]
    ELSE IF parseToken(bearer, t) = "panic" THEN Panicked @@ [blk |-> FALSE]
    ELSE IF parseToken(bearer, t) = "err" THEN Plain("Forbidden") @@ [blk |-> FALSE]
    ELSE IF rt.form = "none" THEN Plain("BadRequest") @@ [blk |-> FALSE]
    ELSE IF validateRefreshToken(rt, t) = "panic" THEN Panicked @@ [blk |-> FALSE]
    ELSE IF validateRefreshToken(rt, t) = "err" THEN Plain("Forbidden") @@ [blk |-> FALSE]
    ELSE LET b == IsRefreshTokenBlacklisted(bl, bearer.id, rt, fault) IN
         IF b.err # "nil"
         THEN [Plain("Internal") EXCEPT !.uid = bearer.id] @@ [blk |-> FALSE, fault |-> fault]
         ELSE [Plain("continue") EXCEPT !.uid = bearer.id] @@ [blk |-> b.found]

\* refreshTokenHandler taking an error of the blacklist lookup for "not
\* blacklisted".
refreshTokenLookupErrAsAbsent(bl, bearer, rt, t, fault) ==
    IF bearer.form = "none" THEN Plain("Forbidden") @@ [blk |-> FALSE]
    ELSE IF parseToken(bearer, t) = "panic" THEN Panicked @@ [blk |-> FALSE]
    ELSE IF parseToken(bearer, t) = "err" THEN Plain("Forbidden") @@ [blk |-> FALSE]
    ELSE IF rt.form = "none" THEN Plain("BadRequest") @@ [blk |-> FALSE]
    ELSE IF validateRefreshToken(rt, t) = "panic" THEN Panicked @@ [blk |-> FALSE]
    ELSE IF validateRefreshToken(rt, t) = "err" THEN Plain("Forbidden") @@ [blk |-> FALSE]
    ELSE IF bearer.id # rt.id THEN Plain("Forbidden") @@ [blk |-> FALSE]
    ELSE LET b == IsRefreshTokenBlacklisted(bl, bearer.id, rt, fault) IN
         [Plain("continue") EXCEPT !.uid = bearer.id] @@ [blk |-> b.found]

\* refreshTokenHandler answering a token that is not in the blacklist with
\* a new pair at once, without the insert into the blacklist.
refreshTokenLookupIssues(bl, bearer, rt, t, fault) ==
    IF bearer.form = "none" THEN Plain("Forbidden") @@ [blk |-> FALSE]
    ELSE IF parseToken(bearer, t) = "panic" THEN Panicked @@ [blk |-> FALSE]
    ELSE IF parseToken(bearer, t) = "err" THEN Plain("Forbidden") @@ [blk |-> FALSE]
    ELSE IF rt.form = "none" THEN Plain("BadRequest") @@ [blk |-> FALSE]
    ELSE IF validateRefreshToken(rt, t) = "panic" THEN Panicked @@ [blk |-> FALSE]
    ELSE IF validateRefreshToken(rt, t) = "err" THEN Plain("Forbidden") @@ [blk |-> FALSE]
    ELSE IF bearer.id # rt.id THEN Plain("Forbidden") @@ [blk |-> FALSE]
    ELSE LET b == IsRefreshTokenBlacklisted(bl, bearer.id, rt, fault) IN
         IF b.err = "ErrNotFound" THEN TokenPair(bearer.id, t) @@ [blk |-> FALSE]
         ELSE IF b.err # "nil"
         THEN [Plain("Internal") EXCEPT !.uid = bearer.id] @@ [blk |-> FALSE, fault |-> fault]
         ELSE [Plain("continue") EXCEPT !.uid = bearer.id] @@ [blk |-> b.found]

\* refreshTokenHandler up to and including the blacklist lookup.  "continue"
\* is the handler going on with isTokenBlacklisted = blk.
refreshTokenLookup(bl, bearer, rt, t, fault) ==
    IF bearer.form = "none" THEN Plain("Forbidden") @@ [blk |-> FALSE]
    ELSE IF parseToken(bearer, t) = "panic" THEN Panicked @@ [blk |-> FALSE]
    ELSE IF parseToken(bearer, t) = "err" THEN Plain("Forbidden") @@ [blk |-> FALSE]
    ELSE IF rt.form = "none" THEN Plain("BadRequest") @@ [blk |-> FALSE]
    ELSE IF validateRefreshToken(rt, t) = "panic" THEN Panicked @@ [blk |-> FALSE]
    ELSE IF validateRefreshToken(rt, t) = "err" THEN Plain("Forbidden") @@ [blk |-> FALSE]
    ELSE IF bearer.id # rt.id THEN Plain("Forbidden") @@ [blk |-> FALSE]
    ELSE LET b == IsRefreshTokenBlacklisted(bl, bearer.id, rt, fault) IN
         IF b.err # "nil"
         THEN [Plain("Internal") EXCEPT !.uid = bearer.id] @@ [blk |-> FALSE, fault |-> fault]
         ELSE [Plain("continue") EXCEPT !.uid = bearer.id] @@ [blk |-> b.found]

\* refreshTokenHandler taking a replayed token off the blacklist once the
\* account is deactivated.
refreshTokenFinishUnblacklist(tbl, bl, userId, rt, blk, t, fault) ==
    IF blk
    THEN IF fault
         THEN [resp |-> Plain("Internal") @@ [fault |-> TRUE], users |-> tbl, bl |-> bl]
         ELSE [resp |-> [Plain("Forbidden") EXCEPT !.uid = userId],
               users |-> SetActiveState(tbl, userId, FALSE),
               bl |-> bl \ {[user_id |-> userId, token |-> rt]}]
    ELSE LET ins == InsertRefreshToken(bl, tbl, [user_id |-> userId, token |-> rt], fault) IN
         IF ins.err # "nil"
         THEN [resp |-> Plain("Internal") @@ [fault |-> fault], users |-> tbl, bl |-> bl]
         ELSE [resp |-> TokenPair(userId, t), users |-> tbl, bl |-> ins.bl]

\* refreshTokenHandler after the lookup: a blacklisted token deactivates the
\* account; otherwise a pair is signed, the presented token is inserted
\* into the blacklist, and the pair is returned.
refreshTokenFinish(tbl, bl, userId, rt, blk, t, fault) ==
    IF blk
    THEN IF fault
         THEN [resp |-> Plain("Internal") @@ [fault |-> TRUE], users |-> tbl, bl |-> bl]
         ELSE [resp |-> [Plain("Forbidden") EXCEPT !.uid = userId],
               users |-> SetActiveState(tbl, userId, FALSE), bl |-> bl]
    ELSE LET ins == InsertRefreshToken(bl, tbl, [user_id |-> userId, token |-> rt], fault) IN
         IF ins.err # "nil"
         THEN [resp |-> Plain("Internal") @@ [fault |-> fault], users |-> tbl, bl |-> bl]
         ELSE [resp |-> TokenPair(userId, t), users |-> tbl, bl |-> ins.bl]

\* errorHandler: the last error a handler attached decides the response.
errorHandler(err) ==
    CASE err = "ErrUserAlreadyExists" -> Plain("Conflict")
      [] err = "ErrInvalidJSON" -> Plain("BadRequest")
      [] err = "ErrInvalidInput" -> Plain("BadRequest")
      [] OTHER -> Plain("Internal")

\* registerUserHandler: hash, InsertUser, tokens.
registerUserHandler(tbl, id, username, email, password, t, fault) ==
    LET ins == InsertUser(tbl, id, username, email, CreateHash(password)) IN
    IF fault THEN [resp |-> errorHandler(DbFault) @@ [fault |-> TRUE], users |-> tbl]
    ELSE IF ins.err # "nil"
    THEN [resp |-> errorHandler(ins.err), users |-> tbl]
    ELSE [resp |-> TokenPair(ins.id, t), users |-> ins.users]

\* loginUserRecoveryHandler answering an unknown username with a message of
\* its own.
loginUserRecoveryReadNoUser(tbl, username, password, code, qfault, cfault) ==
    LET id == FindUserByUsername(tbl, username) IN
    IF qfault
    THEN badRequestResponse("incorrect username or password") @@ [codes |-> <<>>, fault |-> TRUE]
    ELSE IF id = 0 THEN badRequestResponse("user not found") @@ [codes |-> <<>>]
    ELSE IF ~ComparePasswordAndHash(password, tbl[id].password)
    THEN badRequestResponse("incorrect username or password") @@ [codes |-> <<>>]
    ELSE LET recoveryCodes == tbl[id].recovery IN
         IF cfault
         THEN [Plain("Internal") EXCEPT !.uid = id] @@ [codes |-> <<>>, fault |-> TRUE]
         ELSE IF Len(recoveryCodes) = 0
         THEN [badRequestResponse("incorrect recovery code") EXCEPT !.uid = id]
              @@ [codes |-> <<>>]
         ELSE IF ~isRecoveryCodeValid(code, recoveryCodes)
         THEN [badRequestResponse("incorrect recovery code") EXCEPT !.uid = id]
              @@ [codes |-> <<>>]
         ELSE [Plain("continue") EXCEPT !.uid = id] @@ [codes |-> recoveryCodes]

\* loginUserRecoveryHandler up to the membership test of the code in the
\* recovery codes read from the store (GetUserRecoveryCodes).
loginUserRecoveryRead(tbl, username, password, code, qfault, cfault) ==
    LET id == FindUserByUsername(tbl, username) IN
    IF qfault
    THEN badRequestResponse("incorrect username or password") @@ [codes |-> <<>>, fault |-> TRUE]
    ELSE IF id = 0 THEN badRequestResponse("incorrect username or password") @@ [codes |-> <<>>]
    ELSE IF ~ComparePasswordAndHash(password, tbl[id].password)
    THEN badRequestResponse("incorrect username or password") @@ [codes |-> <<>>]
    ELSE LET recoveryCodes == tbl[id].recovery IN
         IF cfault
         THEN [Plain("Internal") EXCEPT !.uid = id] @@ [codes |-> <<>>, fault |-> TRUE]
         ELSE IF Len(recoveryCodes) = 0
         THEN [badRequestResponse("incorrect recovery code") EXCEPT !.uid = id]
              @@ [codes |-> <<>>]
         ELSE IF ~isRecoveryCodeValid(code, recoveryCodes)
         THEN [badRequestResponse("incorrect recovery code") EXCEPT !.uid = id]
              @@ [codes |-> <<>>]
         ELSE [Plain("continue") EXCEPT !.uid = id] @@ [codes |-> recoveryCodes]

\* loginUserRecoveryHandler from removeRecoveryCode on: the list read
\* earlier, less the code, is written back and the pair is returned.
loginUserRecoveryWrite(tbl, userId, recoveryCodes, code, t, fault) ==
    IF fault
    THEN [resp |-> Plain("Internal") @@ [fault |-> TRUE], users |-> tbl]
    ELSE [resp |-> TokenPair(userId, t),
          users |-> SetRecoveryCodes(tbl, userId, removeRecoveryCode(recoveryCodes, code))]

\* userAuth without the test of the active flag.
userAuthNoActive(tbl, bearer, t, qfault) ==
    IF bearer.form = "none" THEN Plain("Forbidden")
    ELSE IF validateAccessToken(bearer, t) = "panic" THEN Panicked
    ELSE IF validateAccessToken(bearer, t) = "err" THEN Plain("Forbidden")
    ELSE IF qfault THEN Plain("NotFound") @@ [fault |-> TRUE]
    ELSE IF bearer.id \notin DOMAIN tbl THEN Plain("NotFound")
    ELSE [Plain("continue") EXCEPT !.uid = bearer.id]

\* userAuth: bearer token from the header, validateAccessToken, the user
\* row by the token's id, the active flag.
userAuth(tbl, bearer, t, qfault) ==
    IF bearer.form = "none" THEN Plain("Forbidden")
    ELSE IF validateAccessToken(bearer, t) = "panic" THEN Panicked
    ELSE IF validateAccessToken(bearer, t) = "err" THEN Plain("Forbidden")
    ELSE IF qfault THEN Plain("NotFound") @@ [fault |-> TRUE]
    ELSE IF bearer.id \notin DOMAIN tbl THEN Plain("NotFound")
    ELSE IF ~tbl[bearer.id].active THEN [Plain("Forbidden") EXCEPT !.uid = bearer.id]
    ELSE [Plain("continue") EXCEPT !.uid = bearer.id]

\* The policy the enforcer is loaded with, as <<role, object, action>>
\* triples: admin is granted (user, delete).
Policy == {<<"admin", "user", "delete">>}

\* CasbinEnforcer.Enforce when the evaluation succeeds: the table's decision.
Enforce(role, object, action) == <<role, object, action>> \in Policy

\* enforcePermissions: asks the enforcer about (role, "user", "delete"),
\* whatever object and action it was called with.  When the evaluation
\* fails (err) it writes the 500 response itself and returns false.
enforcePermissions(role, object, action, err) ==
    IF err THEN [ok |-> FALSE, wrote |-> <<"Internal">>]
    ELSE [ok |-> Enforce(role, "user", "delete"), wrote |-> <<>>]

\* deletePostHandler, the gate before DeletePostByPostID: the owner of the
\* post passes, anyone else needs (post, delete).
deletePostHandlerGate(role, callerId, ownerId) ==
    IF ownerId # callerId THEN enforcePermissions(role, "post", "delete", FALSE).ok ELSE TRUE

\* editPostHandler, the gate before the update: the owner of the post
\* passes, anyone else needs (post, write).
editPostHandlerGate(role, callerId, ownerId) ==
    IF ownerId # callerId THEN enforcePermissions(role, "post", "write", FALSE).ok ELSE TRUE

\* deleteUserHandler without the call of enforcePermissions.
deleteUserHandlerNoCheck(tbl, bl, rts, bearer, userId, t, qfault, err, fault) ==
    LET auth == userAuth(tbl, bearer, t, qfault)
        same == [users |-> tbl, bl |-> bl, rts |-> rts] IN
    IF auth.status # "continue"
    THEN [resp |-> auth, asked |-> FALSE, deletes |-> FALSE] @@ same
    ELSE IF fault
    THEN [resp |-> [Plain("Internal") EXCEPT !.uid = auth.uid] @@ [fault |-> TRUE],
          asked |-> TRUE, deletes |-> TRUE] @@ same
    ELSE [resp |-> [Plain("OK") EXCEPT !.uid = auth.uid], asked |-> TRUE, deletes |-> TRUE]
         @@ DeleteUserByID(tbl, bl, rts, userId)

\* deleteUserHandler behind userAuth: the caller's role must be granted
\* (user, delete); then the row with the id of the path is deleted.  A
\* false from enforcePermissions is answered 403 whatever enforcePermissions
\* has written already; the status on the wire is that of the first write.
deleteUserHandler(tbl, bl, rts, bearer, userId, t, qfault, err, fault) ==
    LET auth == userAuth(tbl, bearer, t, qfault)
        same == [users |-> tbl, bl |-> bl, rts |-> rts] IN
    IF auth.status # "continue"
    THEN [resp |-> auth, asked |-> FALSE, deletes |-> FALSE] @@ same
    ELSE LET perm == enforcePermissions(tbl[auth.uid].role, "user", "delete", err)
             writes == perm.wrote \o <<"Forbidden">> IN
         IF ~perm.ok
         THEN [resp |-> [Plain(Head(writes)) EXCEPT !.uid = auth.uid] @@ [writes |-> writes],
               asked |-> TRUE, deletes |-> FALSE] @@ same
         ELSE IF fault
         THEN [resp |-> [Plain("Internal") EXCEPT !.uid = auth.uid] @@ [fault |-> TRUE],
               asked |-> TRUE, deletes |-> TRUE] @@ same
         ELSE [resp |-> [Plain("OK") EXCEPT !.uid = auth.uid], asked |-> TRUE, deletes |-> TRUE]
              @@ DeleteUserByID(tbl, bl, rts, userId)

\* confirmMfaHandler storing the secret as submitted, without encryptMfaSecret.
confirmMfaHandlerPlain(tbl, bearer, secret, totp, batch, t, qfault, fault) ==
    LET auth == userAuth(tbl, bearer, t, qfault) IN
    IF auth.status # "continue" THEN [resp |-> auth, users |-> tbl, drew |-> FALSE]
    ELSE IF ~totpValidate(totp, secret, t)
    THEN [resp |-> [errorHandler("ErrInvalidInput") EXCEPT !.uid = auth.uid],
          users |-> tbl, drew |-> FALSE]
    ELSE IF fault
    THEN [resp |-> [Plain("Internal") EXCEPT !.uid = auth.uid] @@ [fault |-> TRUE],
          users |-> tbl, drew |-> TRUE]
    ELSE [resp |-> [Plain("OK") EXCEPT !.uid = auth.uid],
          users |-> InsertMfaSecret(tbl, auth.uid, secret, generateRecoveryCodes(batch)),
          drew |-> TRUE]

\* confirmMfaHandler behind userAuth: validates the code against the echoed
\* secret, encrypts the secret, draws the recovery codes and stores both.
confirmMfaHandler(tbl, bearer, secret, totp, batch, t, qfault, fault) ==
    LET auth == userAuth(tbl, bearer, t, qfault) IN
    IF auth.status # "continue" THEN [resp |-> auth, users |-> tbl, drew |-> FALSE]
    ELSE IF ~totpValidate(totp, secret, t)
    THEN [resp |-> [errorHandler("ErrInvalidInput") EXCEPT !.uid = auth.uid],
          users |-> tbl, drew |-> FALSE]
    ELSE IF fault
    THEN [resp |-> [Plain("Internal") EXCEPT !.uid = auth.uid] @@ [fault |-> TRUE],
          users |-> tbl, drew |-> TRUE]
    ELSE [resp |-> [Plain("OK") EXCEPT !.uid = auth.uid],
          users |-> InsertMfaSecret(tbl, auth.uid, encryptMfaSecret(secret),
                                    generateRecoveryCodes(batch)),
          drew |-> TRUE]

\* createPasswordResetToken answering 404 for an email without a user.
createPasswordResetTokenNotFound(tbl, rts, email, batch, t, qfault, fault) ==
    LET id == FindUserByEmail(tbl, email) IN
    IF qfault
    THEN [resp |-> errorHandler(handleError(DbFault)) @@ [fault |-> TRUE], rts |-> rts,
          drew |-> FALSE]
    ELSE IF id = 0 THEN [resp |-> Plain("NotFound"), rts |-> rts, drew |-> FALSE]
    ELSE IF fault
    THEN [resp |-> errorHandler(handleError(DbFault)) @@ [fault |-> TRUE], rts |-> rts, drew |-> TRUE]
    ELSE [resp |-> [Plain("OK") EXCEPT !.uid = id] @@ [mail |-> TRUE],
          rts |-> rts \cup {[user_id |-> id, token |-> <<"prt", batch>>, expiry |-> t + 15 * 60]},
          drew |-> TRUE]

\* createPasswordResetToken: user by email, a random token stored with a
\* 15 minute expiry; errors go to errorHandler.
createPasswordResetToken(tbl, rts, email, batch, t, qfault, fault) ==
    LET id == FindUserByEmail(tbl, email) IN
    IF qfault
    THEN [resp |-> errorHandler(handleError(DbFault)) @@ [fault |-> TRUE], rts |-> rts,
          drew |-> FALSE]
    ELSE IF id = 0 THEN [resp |-> errorHandler(handleError("sql.ErrNoRows")), rts |-> rts, drew |-> FALSE]
    ELSE IF fault
    THEN [resp |-> errorHandler(handleError(DbFault)) @@ [fault |-> TRUE], rts |-> rts, drew |-> TRUE]
    ELSE [resp |-> [Plain("OK") EXCEPT !.uid = id] @@ [mail |-> TRUE],
          rts |-> rts \cup {[user_id |-> id, token |-> <<"prt", batch>>, expiry |-> t + 15 * 60]},
          drew |-> TRUE]

\* resetUserPasswordHandler with an expired token refused but left in the
\* store.
resetUserPasswordLookupKeep(rts, token, t, qfault, fault) ==
    LET got == GetPasswordResetToken(rts, token) IN
    IF qfault
    THEN [resp |-> Plain("Forbidden") @@ [fault |-> TRUE], rts |-> rts, expired |-> FALSE]
    ELSE IF got.err # "nil" THEN [resp |-> Plain("Forbidden"), rts |-> rts, expired |-> FALSE]
    ELSE IF got.tok.expiry < t
    THEN [resp |-> [Plain("Forbidden") EXCEPT !.uid = got.tok.user_id] @@ [fault |-> fault],
          rts |-> rts, expired |-> TRUE]
    ELSE [resp |-> [Plain("continue") EXCEPT !.uid = got.tok.user_id], rts |-> rts,
          expired |-> FALSE]

\* resetUserPasswordHandler up to the expiry test: an unknown token is
\* refused; an expired one is refused and then deleted (a failure of the
\* delete is logged only).
resetUserPasswordLookup(rts, token, t, qfault, fault) ==
    LET got == GetPasswordResetToken(rts, token) IN
    IF qfault
    THEN [resp |-> Plain("Forbidden") @@ [fault |-> TRUE], rts |-> rts, expired |-> FALSE]
    ELSE IF got.err # "nil" THEN [resp |-> Plain("Forbidden"), rts |-> rts, expired |-> FALSE]
    ELSE IF got.tok.expiry < t
    THEN [resp |-> [Plain("Forbidden") EXCEPT !.uid = got.tok.user_id] @@ [fault |-> fault],
          rts |-> IF fault THEN rts ELSE DeletePasswordResetToken(rts, token),
          expired |-> TRUE]
    ELSE [resp |-> [Plain("continue") EXCEPT !.uid = got.tok.user_id], rts |-> rts,
          expired |-> FALSE]

\* ----------------------------------------------------------------- clients

\* Tokens clients hold: every pair the server has handed out.
KnownAccess == {generateAccessToken(s[1], s[2]) : s \in sessions}
KnownRefresh == {generateRefreshToken(s[1], s[2]) : s \in sessions}
\* Tokens anyone can make up: any claims under a signature that is not the
\* server's, and strings that are no tokens.
Forged(type) == {Tok("jwt", 1, type, 0, 900, "forged")}
Garbage == {NoSegments, BadHeader}
\* What a request can carry as its bearer token and as its refresh token.
Bearers == KnownAccess \cup Forged("") \cup Garbage \cup {NoTok}
RefreshTokens == KnownRefresh \cup KnownAccess \cup Forged(RefreshTokenType) \cup Garbage

\* A new request takes the lowest free slot (slots are interchangeable).
FreeSlot(p) == pc[p] = "idle" /\ \A q \in Procs : q < p => pc[q] # "idle"

\* The record of a completed request with response r.
Finish(op, r) ==
    [DefaultLast EXCEPT !.seq = last.seq + 1, !.op = op, !.status = r.status,
                        !.access = r.access, !.refresh = r.refresh, !.uid = r.uid,
                        !.fault = ("fault" \in DOMAIN r) /\ r.fault,
                        !.panic = ("panic" \in DOMAIN r) /\ r.panic,
                        !.msg = IF "msg" \in DOMAIN r THEN r.msg ELSE "",
                        !.mail = ("mail" \in DOMAIN r) /\ r.mail,
                        !.writes = IF "writes" \in DOMAIN r THEN r.writes ELSE <<r.status>>]

\* A pair returned to a client is a session the client now holds.
Issue(r) == IF HasTokens(r) THEN sessions \cup {<<r.uid, now>>} ELSE sessions

\* ------------------------------------------------------------------ actions

Start == nreq < MaxReqs /\ nreq' = nreq + 1
Release(p) == pc' = [pc EXCEPT ![p] = "idle"] /\ req' = [req EXCEPT ![p] = EmptyReq]

\* POST /users/register
Register(username, email, password, fault) ==
    /\ Start
    /\ nextUserId <= MaxUsers
    /\ LET r == registerUserHandler(users, nextUserId, username, email, password, now, fault) IN
        /\ users' = r.users
        /\ nextUserId' = IF HasTokens(r.resp) THEN nextUserId + 1 ELSE nextUserId
        /\ last' = [Finish("register", r.resp) EXCEPT !.username = username,
                                                      !.email = email, !.password = password]
        /\ sessions' = Issue(r.resp)
    /\ UNCHANGED <<blacklist, resetTokens, rng, now, pc, req, presented, redeemed, consumed, spent>>

\* POST /users/login
Login(username, password, qfault) ==
    /\ Start
    /\ LET r == loginUserHandler(users, username, password, now, qfault) IN
        /\ last' = [Finish("login", r) EXCEPT !.username = username, !.password = password]
        /\ sessions' = Issue(r)
    /\ UNCHANGED <<users, nextUserId, blacklist, resetTokens, rng, now, pc, req, presented,
                   redeemed, consumed, spent>>

\* POST /users/login/mfa
LoginMfa(username, password, totp, qfault) ==
    /\ Start
    /\ LET r == loginUserMfaHandler(users, username, password, totp, now, qfault) IN
        /\ last' = [Finish("loginMfa", r) EXCEPT !.username = username,
                                                 !.password = password, !.totp = totp]
        /\ sessions' = Issue(r)
    /\ UNCHANGED <<users, nextUserId, blacklist, resetTokens, rng, now, pc, req, presented,
                   redeemed, consumed, spent>>

\* POST /users/login/recovery, to the membership test.
RecoveryBegin(p, username, password, code, qfault, cfault) ==
    /\ FreeSlot(p)
    /\ Start
    /\ qfault => ~cfault
    /\ cfault => loginUserRecoveryRead(users, username, password, code, FALSE, FALSE).uid # 0
    /\ LET r == loginUserRecoveryRead(users, username, password, code, qfault, cfault) IN
        IF r.status = "continue"
        THEN /\ pc' = [pc EXCEPT ![p] = "recovery"]
             /\ req' = [req EXCEPT ![p] = [EmptyReq EXCEPT !.op = "recovery", !.uid = r.uid,
                                              !.code = code, !.codes = r.codes,
                                              !.username = username, !.password = password,
                                              !.late = <<r.uid, code>> \in consumed]]
             /\ UNCHANGED last
        ELSE /\ last' = [Finish("recovery", r) EXCEPT !.username = username,
                             !.password = password, !.code = code,
                             !.late = <<r.uid, code>> \in consumed]
             /\ UNCHANGED <<pc, req>>
    /\ UNCHANGED <<users, nextUserId, blacklist, resetTokens, sessions, rng, now, presented,
                   redeemed, consumed, spent>>

\* POST /users/login/recovery, from SetRecoveryCodes on.
RecoveryFinish(p, fault) ==
    /\ pc[p] = "recovery"
    /\ LET r == loginUserRecoveryWrite(users, req[p].uid, req[p].codes, req[p].code, now, fault) IN
        /\ users' = r.users
        /\ sessions' = Issue(r.resp)
        /\ consumed' = IF HasTokens(r.resp) THEN consumed \cup {<<req[p].uid, req[p].code>>}
                       ELSE consumed
        /\ last' = [Finish("recovery", r.resp) EXCEPT !.uid = req[p].uid,
                        !.username = req[p].username, !.password = req[p].password,
                        !.code = req[p].code, !.late = req[p].late,
                        !.dup = <<req[p].uid, req[p].code>> \in consumed]
    /\ Release(p)
    /\ UNCHANGED <<nextUserId, blacklist, resetTokens, rng, now, nreq, presented, redeemed,
                   spent>>

\* POST /users/mfa/confirm
ConfirmMfa(bearer, secret, totp, qfault, fault) ==
    /\ Start
    /\ qfault => (~fault /\ validateAccessToken(bearer, now) = "ok")
    /\ fault => confirmMfaHandler(users, bearer, secret, totp, rng, now, FALSE, FALSE).drew
    /\ LET r == confirmMfaHandler(users, bearer, secret, totp, rng, now, qfault, fault) IN
        /\ users' = r.users
        /\ rng' = IF r.drew THEN rng + 1 ELSE rng
        /\ last' = [Finish("confirmMfa", r.resp) EXCEPT !.bearer = bearer, !.totp = totp]
    /\ UNCHANGED <<nextUserId, blacklist, resetTokens, sessions, now, pc, req, presented,
                   redeemed, consumed, spent>>

\* DELETE /users/:userId
DeleteUser(bearer, userId, qfault, err, fault) ==
    /\ Start
    /\ qfault => (~err /\ ~fault /\ validateAccessToken(bearer, now) = "ok")
    /\ err => deleteUserHandler(users, blacklist, resetTokens, bearer, userId, now,
                                FALSE, FALSE, FALSE).asked
    /\ fault => deleteUserHandler(users, blacklist, resetTokens, bearer, userId, now,
                                  FALSE, err, FALSE).deletes
    /\ LET r == deleteUserHandler(users, blacklist, resetTokens, bearer, userId, now,
                                  qfault, err, fault) IN
        /\ users' = r.users
        /\ blacklist' = r.bl
        /\ resetTokens' = r.rts
        /\ last' = [Finish("deleteUser", r.resp) EXCEPT !.bearer = bearer, !.target = userId,
                        !.perr = err,
                        !.rows = Cardinality({b \in blacklist : b.user_id = userId})
                                 + Cardinality({t \in resetTokens : t.user_id = userId})]
    /\ UNCHANGED <<nextUserId, sessions, rng, now, pc, req, presented, redeemed, consumed,
                   spent>>

\* POST /users/token/refresh, to the blacklist lookup.
RefreshBegin(p, bearer, rt, fault) ==
    /\ FreeSlot(p)
    /\ Start
    /\ fault => refreshTokenLookup(blacklist, bearer, rt, now, FALSE).uid # 0
    /\ LET r == refreshTokenLookup(blacklist, bearer, rt, now, fault) IN
        /\ presented' = IF r.uid # 0 THEN presented \cup {rt} ELSE presented
        /\ IF r.status = "continue"
           THEN /\ pc' = [pc EXCEPT ![p] = "refresh"]
                /\ req' = [req EXCEPT ![p] = [EmptyReq EXCEPT !.op = "refresh", !.uid = r.uid,
                                                 !.rt = rt, !.blk = r.blk, !.fault = fault,
                                                 !.first = rt \notin presented]]
                /\ UNCHANGED last
           ELSE /\ last' = [Finish("refresh", r) EXCEPT !.bearer = bearer, !.rt = rt,
                                                        !.first = rt \notin presented]
                /\ UNCHANGED <<pc, req>>
    /\ UNCHANGED <<users, nextUserId, blacklist, resetTokens, sessions, rng, now, redeemed,
                   consumed, spent>>

\* POST /users/token/refresh, after the blacklist lookup.
RefreshFinish(p, fault) ==
    /\ pc[p] = "refresh"
    /\ LET r == refreshTokenFinish(users, blacklist, req[p].uid, req[p].rt, req[p].blk, now, fault) IN
        /\ users' = r.users
        /\ blacklist' = r.bl
        /\ sessions' = Issue(r.resp)
        /\ redeemed' = IF HasTokens(r.resp) THEN redeemed \cup {req[p].rt} ELSE redeemed
        /\ last' = [Finish("refresh", r.resp) EXCEPT !.uid = req[p].uid, !.rt = req[p].rt,
                        !.first = req[p].first, !.dup = req[p].rt \in redeemed,
                        !.fault = @ \/ req[p].fault]
    /\ Release(p)
    /\ UNCHANGED <<nextUserId, resetTokens, rng, now, nreq, presented, consumed, spent>>

\* POST /users/password-reset
CreateReset(email, qfault, fault) ==
    /\ Start
    /\ qfault => ~fault
    /\ fault => createPasswordResetToken(users, resetTokens, email, rng, now, FALSE, FALSE).drew
    /\ LET r == createPasswordResetToken(users, resetTokens, email, rng, now, qfault, fault) IN
        /\ resetTokens' = r.rts
        /\ rng' = IF r.drew THEN rng + 1 ELSE rng
        /\ last' = [Finish("createReset", r.resp) EXCEPT !.email = email]
    /\ UNCHANGED <<users, nextUserId, blacklist, sessions, now, pc, req, presented, redeemed,
                   consumed, spent>>

\* PUT /users/password-reset, to the expiry test.
ResetBegin(p, token, password, qfault, fault) ==
    /\ FreeSlot(p)
    /\ Start
    /\ qfault => ~fault
    /\ fault => resetUserPasswordLookup(resetTokens, token, now, FALSE, FALSE).expired
    /\ LET r == resetUserPasswordLookup(resetTokens, token, now, qfault, fault) IN
        /\ resetTokens' = r.rts
        /\ IF r.resp.status = "continue"
           THEN /\ pc' = [pc EXCEPT ![p] = "reset_set"]
                /\ req' = [req EXCEPT ![p] = [EmptyReq EXCEPT !.op = "reset", !.uid = r.resp.uid,
                                                 !.prt = token, !.password = password]]
                /\ UNCHANGED last
           ELSE /\ last' = [Finish("reset", r.resp) EXCEPT !.prt = token, !.password = password]
                /\ UNCHANGED <<pc, req>>
    /\ UNCHANGED <<users, nextUserId, blacklist, sessions, rng, now, presented, redeemed,
                   consumed, spent>>

\* PUT /users/password-reset: CreateHash and SetPassword.
ResetSetPassword(p, fault) ==
    /\ pc[p] = "reset_set"
    /\ IF fault
       THEN /\ last' = [Finish("reset", Plain("Internal")) EXCEPT !.uid = req[p].uid,
                            !.prt = req[p].prt, !.password = req[p].password, !.fault = TRUE]
            /\ Release(p)
            /\ UNCHANGED users
       ELSE /\ users' = SetPassword(users, req[p].uid, CreateHash(req[p].password))
            /\ pc' = [pc EXCEPT ![p] = "reset_delete"]
            /\ UNCHANGED <<req, last>>
    /\ UNCHANGED <<nextUserId, blacklist, resetTokens, sessions, rng, now, nreq, presented,
                   redeemed, consumed, spent>>

\* PUT /users/password-reset: DeleteAllPasswordResetTokensForUser, response.
ResetDeleteAll(p, fault) ==
    /\ pc[p] = "reset_delete"
    /\ resetTokens' = IF fault THEN resetTokens
                      ELSE DeleteAllPasswordResetTokensForUser(resetTokens, req[p].uid)
    /\ spent' = IF fault THEN spent ELSE spent \cup {req[p].prt}
    /\ last' = [Finish("reset", Plain(IF fault THEN "Internal" ELSE "OK")) EXCEPT
                    !.uid = req[p].uid, !.prt = req[p].prt, !.password = req[p].password,
                    !.fault = fault, !.dup = req[p].prt \in spent,
                    !.rows = IF fault THEN 0
                             ELSE Cardinality({r \in resetTokens : r.user_id = req[p].uid})]
    /\ Release(p)
    /\ UNCHANGED <<users, nextUserId, blacklist, sessions, rng, now, nreq, presented,
                   redeemed, consumed>>

\* The wall clock advances one second.
Tick ==
    /\ now < MaxTime
    /\ now' = now + 1
    /\ UNCHANGED <<users, nextUserId, blacklist, resetTokens, sessions, rng, pc, req, nreq,
                   last, presented, redeemed, consumed, spent>>

\* -------------------------------------------------------------------- spec

\* The persisted store: alice (no MFA) whose last refresh token, signed at
\* RecentIat, has been redeemed; bob, an admin enrolled in MFA long ago, whose only
\* session has outlived the refresh lifetime and who once asked for a
\* password reset he never used.
Init ==
    /\ users = (1 :> UserRow("alice", "alice@example.com", CreateHash("password1"),
                             NoSecret, "normal", <<>>, TRUE)
             @@ 2 :> UserRow("bob", "bob@example.com", CreateHash("password2"),
                             encryptMfaSecret(TotpSecret), "admin",
                             generateRecoveryCodes(0), TRUE))
    /\ nextUserId = 3
    /\ blacklist = {[user_id |-> 1, token |-> generateRefreshToken(1, RecentIat)]}
    /\ resetTokens = {[user_id |-> 2, token |-> <<"prt", 0>>, expiry |-> AncientIat + 15 * 60]}
    /\ sessions = {<<1, RecentIat>>, <<2, AncientIat>>}
    /\ rng = 1
    /\ now = 0
    /\ pc = [p \in Procs |-> "idle"]
    /\ req = [p \in Procs |-> EmptyReq]
    /\ nreq = 0
    /\ last = DefaultLast
    /\ presented = {generateRefreshToken(1, RecentIat)}
    /\ redeemed = {generateRefreshToken(1, RecentIat)}
    /\ consumed = {}
    /\ spent = {}

\* What requests carry.
TotpInputs == {TotpCode(TotpSecret, now), TotpCode(NewTotpSecret, now), StaleTotp(TotpSecret)}
CodeInputs == {randomString(0, 0), randomString(0, 1), WrongCode}
ResetInputs == {<<"prt", k>> : k \in 0..rng}

Next ==
    \/ \E u \in {"alice", "carol"}, e \in Emails, f \in BOOLEAN : Register(u, e, "password1", f)
    \/ \E u \in Usernames, pw \in Passwords : Login(u, pw, FALSE)
    \/ \E u \in {"alice", "bob"} : Login(u, "password1", TRUE)
    \/ \E u \in Usernames, pw \in Passwords, c \in TotpInputs : LoginMfa(u, pw, c, FALSE)
    \/ LoginMfa("bob", "password2", TotpCode(TotpSecret, now), TRUE)
    \/ \E p \in Procs, u \in Usernames, pw \in Passwords, c \in CodeInputs :
            RecoveryBegin(p, u, pw, c, FALSE, FALSE)
    \/ \E p \in Procs, q \in BOOLEAN :
            RecoveryBegin(p, "bob", "password2", randomString(0, 0), q, ~q)
    \/ \E p \in Procs, f \in BOOLEAN : RecoveryFinish(p, f)
    \/ \E b \in Bearers \cup KnownRefresh, c \in TotpInputs, f \in BOOLEAN :
            ConfirmMfa(b, NewTotpSecret, c, FALSE, f)
    \/ \E b \in KnownAccess : ConfirmMfa(b, NewTotpSecret, TotpCode(NewTotpSecret, now), TRUE, FALSE)
    \/ \E b \in KnownAccess, id \in DOMAIN users, q \in BOOLEAN, e \in BOOLEAN, f \in BOOLEAN :
            DeleteUser(b, id, q, e, f)
    \/ \E p \in Procs, b \in Bearers, rt \in RefreshTokens, f \in BOOLEAN : RefreshBegin(p, b, rt, f)
    \/ \E p \in Procs, f \in BOOLEAN : RefreshFinish(p, f)
    \/ \E e \in Emails, q \in BOOLEAN, f \in BOOLEAN : CreateReset(e, q, f)
    \/ \E p \in Procs, k \in ResetInputs, q \in BOOLEAN, f \in BOOLEAN :
            ResetBegin(p, k, "password2", q, f)
    \/ \E p \in Procs, f \in BOOLEAN : ResetSetPassword(p, f)
    \/ \E p \in Procs, f \in BOOLEAN : ResetDeleteAll(p, f)
    \/ Tick

Spec == Init /\ [][Next]_vars

\* ------------------------------------------------ single functions, called
\* The functions the handlers are built from, each called on its own with
\* arguments a handler can hand it; `last` records the call.

Roles == {"normal", "moderator", "admin"}
Objects == {"user", "post"}
PolicyActions == {"read", "write", "delete"}

\* Byte strings handed to encryptMfaSecret, and what decryptMfaSecret can be
\* handed: a sealed blob, a sealed blob with one byte changed, a sealed blob
\* cut short.
Plaintexts == UNION {[1..n -> {"J", "B"}] : n \in 0..MaxLen}
Mutations(blob) ==
    {[blob EXCEPT ![i] = b] : i \in 1..Len(blob), b \in {<<"00">>, <<"ff">>}} \ {blob}
Truncations(blob) == {SubSeq(blob, 1, n) : n \in 0..(Len(blob) - 1)}
Sealed == {encryptMfaSecret(x) : x \in Plaintexts}

\* The record of one call: the function, its arguments, what it returned.
Call(fn, args, out) == [seq |-> last.seq + 1, op |-> fn, args |-> args, out |-> out]
Called(fn, args, out) ==
    /\ Start
    /\ last' = Call(fn, args, out)
    /\ UNCHANGED <<users, nextUserId, blacklist, resetTokens, sessions, rng, now, pc, req,
                   presented, redeemed, consumed, spent>>

CallEnforcePermissions(role, object, action) ==
    Called("enforcePermissions", <<role, object, action>>,
           enforcePermissions(role, object, action, FALSE).ok)

CallDeletePostGate(role, callerId, ownerId) ==
    Called("deletePostHandler", <<role, callerId, ownerId>>,
           deletePostHandlerGate(role, callerId, ownerId))

CallEditPostGate(role, callerId, ownerId) ==
    Called("editPostHandler", <<role, callerId, ownerId>>,
           editPostHandlerGate(role, callerId, ownerId))

\* Tokens with the claims of an issued pair under each algorithm a header
\* can name, signed with the process key or not.
Algs == HmacAlgs \cup {"RS256", "none"}
AlgTokens ==
    {[tok EXCEPT !.alg = a, !.sig = k] :
        tok \in {generateAccessToken(1, now), generateRefreshToken(1, now)},
        a \in Algs, k \in {SigningKey, "forged"}}

CallValidateAccess(tok) == Called("validateAccessToken", tok, validateAccessToken(tok, now))
CallValidateRefresh(tok) == Called("validateRefreshToken", tok, validateRefreshToken(tok, now))

CallEncrypt(secret) == Called("encryptMfaSecret", secret, encryptMfaSecret(secret))

CallDecrypt(encryptedSecret) ==
    Called("decryptMfaSecret", encryptedSecret, decryptMfaSecret(encryptedSecret))

\* refreshTokenHandler from the point where the lookup has reported the
\* presented token as not blacklisted (isTokenBlacklisted = false).
CallRefreshFinish(userId, rt) ==
    Called("refreshTokenHandler", [userId |-> userId, rt |-> rt],
           refreshTokenFinish(users, blacklist, userId, rt, FALSE, now, FALSE))

NextCalls ==
    \/ \E tok \in AlgTokens : CallValidateAccess(tok)
    \/ \E tok \in AlgTokens : CallValidateRefresh(tok)
    \/ \E x \in Plaintexts : CallEncrypt(x)
    \/ \E blob \in Sealed : CallDecrypt(blob)
    \/ \E blob \in Sealed : \E m \in Mutations(blob) \cup Truncations(blob) : CallDecrypt(m)
    \/ \E r \in Roles, o \in Objects, a \in PolicyActions : CallEnforcePermissions(r, o, a)
    \/ \E r \in Roles, c \in 1..2, o \in 1..2 : CallDeletePostGate(r, c, o)
    \/ \E r \in Roles, c \in 1..2, o \in 1..2 : CallEditPostGate(r, c, o)
    \/ \E id \in DOMAIN users, t \in {RecentIat, now} :
            /\ [user_id |-> id, token |-> generateRefreshToken(id, t)] \notin blacklist
            /\ CallRefreshFinish(id, generateRefreshToken(id, t))

SpecCalls == Init /\ [][NextCalls]_vars

\* ------------------------------------------- sessions across a password reset
\* The persisted store of Init at a moment when alice has also logged in
\* in the current second and holds that pair; from there, logins, password
\* resets and refreshes.

InitLoggedIn ==
    /\ users = (1 :> UserRow("alice", "alice@example.com", CreateHash("password1"),
                             NoSecret, "normal", <<>>, TRUE)
             @@ 2 :> UserRow("bob", "bob@example.com", CreateHash("password2"),
                             encryptMfaSecret(TotpSecret), "admin",
                             generateRecoveryCodes(0), TRUE))
    /\ nextUserId = 3
    /\ blacklist = {[user_id |-> 1, token |-> generateRefreshToken(1, RecentIat)]}
    /\ resetTokens = {[user_id |-> 2, token |-> <<"prt", 0>>, expiry |-> AncientIat + 15 * 60]}
    /\ sessions = {<<1, RecentIat>>, <<2, AncientIat>>, <<1, 0>>}
    /\ rng = 1
    /\ now = 0
    /\ pc = [p \in Procs |-> "idle"]
    /\ req = [p \in Procs |-> EmptyReq]
    /\ nreq = 0
    /\ last = DefaultLast
    /\ presented = {generateRefreshToken(1, RecentIat)}
    /\ redeemed = {generateRefreshToken(1, RecentIat)}
    /\ consumed = {}
    /\ spent = {}

NextLoggedIn ==
    \/ \E u \in {"alice", "bob"}, pw \in Passwords : Login(u, pw, FALSE)
    \/ \E e \in Emails, q \in BOOLEAN, f \in BOOLEAN : CreateReset(e, q, f)
    \/ \E p \in Procs, k \in ResetInputs, q \in BOOLEAN, f \in BOOLEAN :
            ResetBegin(p, k, "password2", q, f)
    \/ \E p \in Procs, f \in BOOLEAN : ResetSetPassword(p, f)
    \/ \E p \in Procs, f \in BOOLEAN : ResetDeleteAll(p, f)
    \/ \E p \in Procs, b \in KnownAccess, rt \in KnownRefresh, f \in BOOLEAN :
            RefreshBegin(p, b, rt, f)
    \/ \E p \in Procs, f \in BOOLEAN : RefreshFinish(p, f)
    \/ Tick

SpecLoggedIn == InitLoggedIn /\ [][NextLoggedIn]_vars

\* ------------------------------------------------------------- properties

\* A request completes in this step.
Completes(op) == last'.seq # last.seq /\ last'.op = op
\* The tokens the blacklist holds.
Blacklisted == {b.token : b \in blacklist}
\* The refresh request last completed reached the blacklist lookup: the
\* bearer token parsed, the refresh token validated, the subjects agreed.
ReachedLookup == last.op = "refresh" /\ last.uid # 0

\* C1: the first refresh presenting an issued refresh token R with an access
\* token of the same subject returns a new pair; a later refresh presenting
\* R returns Forbidden without tokens and leaves the user inactive.
C1_FirstRefreshReturnsPair ==
    /\ (ReachedLookup /\ last.first /\ ~last.fault)
            => (last.status = "OK" /\ HasTokens(last))
    /\ (ReachedLookup /\ ~last.first /\ ~last.fault /\ last.rt \in redeemed)
            => (/\ last.status = "Forbidden" /\ ~HasTokens(last)
                /\ last.uid \in DOMAIN users => ~users[last.uid].active)

C4_SubjectMismatchForbidden ==
    [][(Completes("refresh") /\ last'.bearer.form = "jwt" /\ last'.rt.form = "jwt"
            /\ last'.bearer.id # last'.rt.id)
        => (/\ last'.status = "Forbidden"
            /\ ~HasTokens(last')
            /\ blacklist' = blacklist
            /\ DOMAIN users' = DOMAIN users
            /\ \A u \in DOMAIN users : users'[u].active = users[u].active)]_vars
\* A refresh with a valid access token of one user and a valid refresh token
\* of another has been refused.
C4_Witness ==
    /\ last.op = "refresh" /\ last.status = "Forbidden"
    /\ validateAccessToken(last.bearer, now) = "ok"
    /\ validateRefreshToken(last.rt, now) = "ok"
    /\ last.bearer.id # last.rt.id

\* C5: a refresh presenting a string that is not a correctly signed,
\* unexpired token of type REFRESH (a malformed string included) is answered
\* Forbidden without tokens, and the blacklist and the users do not change.
C5_InvalidRefreshTokenForbidden ==
    [][(Completes("refresh") /\ last'.bearer.form # "none"
            /\ parseToken(last'.bearer, now) = "ok"
            /\ last'.rt.form # "none" /\ validateRefreshToken(last'.rt, now) # "ok")
        => (/\ last'.status = "Forbidden"
            /\ ~HasTokens(last')
            /\ blacklist' = blacklist
            /\ users' = users)]_vars

\* C6: a user whose active flag is false keeps it false in every later
\* state, whatever operation runs.
C6_InactiveStaysInactive ==
    [][\A u \in DOMAIN users :
            (~users[u].active /\ u \in DOMAIN users') => ~users'[u].active]_vars
\* A user deactivated by replay detection has since logged in with the
\* password and is still inactive.
C6_Witness ==
    /\ last.op = "login" /\ HasTokens(last)
    /\ ~users[last.uid].active
    /\ last.uid = 1 /\ generateRefreshToken(1, RecentIat) \in Blacklisted

\* C7: a password login with the correct password is answered "MFA
\* required" without tokens when the user has an MFA secret, and a pair when
\* the user has none.
C7_LoginMfaGate ==
    [][(Completes("login") /\ ~last'.fault) =>
        LET id == FindUserByUsername(users, last'.username) IN
        (id # 0 /\ ComparePasswordAndHash(last'.password, users[id].password)) =>
            IF users[id].mfa_secret # NoSecret
            THEN last'.status = "Found" /\ ~HasTokens(last')
            ELSE last'.status = "OK" /\ last'.access = generateAccessToken(id, now)
                 /\ last'.refresh = generateRefreshToken(id, now)]_vars
\* A user who enrolled in MFA after a password login that returned a pair
\* has logged in with the password again and been sent to the MFA step.
C7_Witness ==
    /\ last.op = "login" /\ last.status = "Found" /\ last.username = "alice"
    /\ <<1, 0>> \in sessions

\* C8: loginMfa returns tokens only if the password verifies, the user has
\* an MFA secret, the secret decrypts and the code validates against it; a
\* user without a secret is answered BadRequest without tokens.
C8_LoginMfaRequiresAll ==
    [][Completes("loginMfa") =>
        LET id == FindUserByUsername(users, last'.username) IN
        /\ HasTokens(last') =>
            /\ id # 0
            /\ ComparePasswordAndHash(last'.password, users[id].password)
            /\ users[id].mfa_secret # NoSecret
            /\ decryptMfaSecret(users[id].mfa_secret).ok
            /\ totpValidate(last'.totp, decryptMfaSecret(users[id].mfa_secret).secret, now)
        /\ (id # 0 /\ users[id].mfa_secret = NoSecret) =>
            (last'.status = "BadRequest" /\ ~HasTokens(last'))]_vars
\* loginMfa has returned a pair to a user with a secret.
C8_Witness ==
    /\ last.op = "loginMfa" /\ HasTokens(last)
    /\ users[last.uid].mfa_secret # NoSecret

\* C9: a recovery code a recovery login succeeded with is no longer in the
\* user's stored codes, and a later recovery login with it returns no
\* tokens.
C9_ConsumedCodeStaysConsumed ==
    /\ \A uc \in consumed :
            uc[1] \in DOMAIN users => ~isRecoveryCodeValid(uc[2], users[uc[1]].recovery)
    /\ (last.op = "recovery" /\ last.late) => ~HasTokens(last)

\* C10: of the concurrent recovery logins of one user with the same code,
\* at most one returns tokens.
C10_AtMostOneRecovery ==
    (last.op = "recovery" /\ last.dup /\ ~last.late) => ~HasTokens(last)

\* C11: of the password resets carrying the same reset token, at most one
\* reports success: no reset reports success with a token an earlier reset
\* reported success with.
C11_ResetTokenSingleUse ==
    (last.op = "reset" /\ last.status = "OK") => ~last.dup

\* C12: a password reset with a token whose expiry is before the current
\* time is answered Forbidden, the token is deleted and no user row changes.
C12_ExpiredResetTokenDeleted ==
    [][(Completes("reset") /\ ~last'.fault
            /\ \E r \in resetTokens : r.token = last'.prt /\ r.expiry < now)
        => (/\ last'.status = "Forbidden"
            /\ ~\E r \in resetTokens' : r.token = last'.prt
            /\ users' = users)]_vars
\* The reset token bob never used has been presented after its expiry, was
\* refused and is gone.
C12_Witness ==
    /\ last.op = "reset" /\ last.status = "Forbidden" /\ last.uid = 2
    /\ last.prt = <<"prt", 0>> /\ ~last.fault
    /\ ~\E r \in resetTokens : r.token = <<"prt", 0>>

\* C13: a password reset that reports success for user u leaves no reset
\* token of u in the store and the reset tokens of other users as they were.
C13_ResetDeletesAllOfUser ==
    [][(Completes("reset") /\ last'.status = "OK")
        => resetTokens' = {r \in resetTokens : r.user_id # last'.uid}]_vars
\* A reset has succeeded for a user who held two reset tokens, while
\* another user's token is still in the store.
C13_Witness ==
    /\ last.op = "reset" /\ last.status = "OK" /\ last.rows >= 2
    /\ \E r \in resetTokens : r.user_id # last.uid

\* C14: in every state a user's stored MFA secret is accompanied by the
\* recovery codes generated by the confirm that stored it: no secret, no
\* codes; the secret enrolled before this run, codes of its batch only; a
\* secret confirmed in this run, codes of batches drawn in this run only.
C14_SecretWithItsCodes ==
    \A u \in DOMAIN users :
        LET row == users[u]
            batches == {row.recovery[i][1] : i \in 1..Len(row.recovery)}
        IN  /\ row.mfa_secret = NoSecret => batches = {}
            /\ row.mfa_secret = encryptMfaSecret(TotpSecret) => batches \subseteq {0}
            /\ row.mfa_secret = encryptMfaSecret(NewTotpSecret) => batches \subseteq 1..rng

\* C15: a successful confirmMfa stores exactly RecoveryCodesAmount (16)
\* recovery codes for the user.
C15_SixteenRecoveryCodes ==
    [][(Completes("confirmMfa") /\ last'.status = "OK")
        => Len(users'[last'.uid].recovery) = RecoveryCodesAmount]_vars

\* C16: in every state a user's stored MFA secret is absent or the output
\* of encryptMfaSecret for a TOTP secret confirmed for a user, from which
\* decryptMfaSecret recovers that secret; the submitted secret itself is
\* never what the row holds.
C16_SecretStoredEncrypted ==
    \A u \in DOMAIN users :
        \/ users[u].mfa_secret = NoSecret
        \/ \E secret \in {TotpSecret, NewTotpSecret} :
              /\ users[u].mfa_secret = encryptMfaSecret(secret)
              /\ decryptMfaSecret(users[u].mfa_secret) =
                    [ok |-> TRUE, panic |-> FALSE, secret |-> secret]
\* A confirmMfa has succeeded and the user's row holds the encryption of
\* the secret the request carried.
C16_Witness ==
    /\ last.op = "confirmMfa" /\ last.status = "OK"
    /\ last.uid \in DOMAIN users
    /\ users[last.uid].mfa_secret = encryptMfaSecret(NewTotpSecret)

\* C17: a registration whose username or email is taken is answered
\* Conflict, creates no user and returns no tokens; one with a fresh
\* username and email returns a pair for the user it created.
C17_RegisterConflict ==
    [][Completes("register") =>
        IF \E u \in DOMAIN users : \/ users[u].username = last'.username
                                    \/ users[u].email = last'.email
        THEN last'.status = "Conflict" /\ ~HasTokens(last') /\ users' = users
        ELSE /\ last'.status = "OK" /\ HasTokens(last')
             /\ last'.uid \in DOMAIN users' \ DOMAIN users
             /\ users'[last'.uid].username = last'.username]_vars

\* C18: login, loginMfa and recovery login answer a username that does not
\* exist and an existing username with a wrong password with the same
\* response: BadRequest "incorrect username or password", no tokens.
C18_UnknownUserAsWrongPassword ==
    [][\A op \in {"login", "loginMfa", "recovery"} :
        (Completes(op) /\ pc' = pc) =>
            LET id == FindUserByUsername(users, last'.username) IN
            (id = 0 \/ ~ComparePasswordAndHash(last'.password, users[id].password))
                => (/\ last'.status = "BadRequest"
                    /\ last'.msg = "incorrect username or password"
                    /\ ~HasTokens(last'))]_vars
\* A recovery login for a username that has no row has been answered.
C18_Witness ==
    /\ last.op = "recovery" /\ FindUserByUsername(users, last.username) = 0
    /\ last.status = "BadRequest" /\ nextUserId = 3

\* C19: createPasswordResetToken for an email that no user has stores no
\* reset token, sends no mail and answers as for a registered email (OK) or
\* with the generic error (Internal), never with a response of its own.
C19_UnknownEmailNotRevealed ==
    [][(Completes("createReset") /\ FindUserByEmail(users, last'.email) = 0)
        => (/\ resetTokens' = resetTokens
            /\ ~last'.mail
            /\ last'.status \in {"OK", "Internal"})]_vars
\* A reset has been requested for an email no user has.
C19_Witness ==
    /\ last.op = "createReset" /\ last.email = "carol@example.com"
    /\ FindUserByEmail(users, last.email) = 0
    /\ ~last.mail

\* C20: deleteUser by an authenticated caller whose role is not granted
\* (user, delete) is answered Forbidden and deletes nothing; by an admin it
\* deletes the target user and is answered OK.
C20_DeleteUserPermission ==
    [][(Completes("deleteUser") /\ userAuth(users, last'.bearer, now, FALSE).status = "continue"
            /\ ~last'.perr /\ ~last'.fault)
        => IF users[last'.bearer.id].role # "admin"
           THEN /\ last'.status = "Forbidden"
                /\ users' = users /\ blacklist' = blacklist /\ resetTokens' = resetTokens
           ELSE /\ last'.status = "OK"
                /\ DOMAIN users' = DOMAIN users \ {last'.target}
                /\ \A u \in DOMAIN users' : users'[u] = users[u]]_vars
\* An admin has deleted another user, whose row is gone.
C20_Witness ==
    /\ last.op = "deleteUser" /\ last.status = "OK"
    /\ last.target = 1 /\ last.bearer.id = 2
    /\ 1 \notin DOMAIN users /\ 2 \in DOMAIN users

\* C21: the permission check returns the policy table's decision for the
\* (role, object, action) it is asked about; deleting and editing another
\* user's post are decided by (role, post, delete) and (role, post, write).
C21_PermissionCheckIsPolicy ==
    /\ last.op = "enforcePermissions"
            => last.out = Enforce(last.args[1], last.args[2], last.args[3])
    /\ (last.op = "deletePostHandler" /\ last.args[2] # last.args[3])
            => last.out = Enforce(last.args[1], "post", "delete")
    /\ (last.op = "editPostHandler" /\ last.args[2] # last.args[3])
            => last.out = Enforce(last.args[1], "post", "write")

\* C22: a deleteUser whose policy evaluation fails writes one response,
\* Internal, and deletes nothing; a Forbidden is written only after a clean
\* negative decision.
C22_PolicyErrorIsInternal ==
    [][Completes("deleteUser")
        => /\ last'.perr => (last'.writes = <<"Internal">> /\ users' = users)
           /\ (last'.status = "Forbidden" /\ last'.uid # 0 /\ users[last'.uid].active)
                  => (~last'.perr /\ ~Enforce(users[last'.uid].role, "user", "delete"))]_vars

\* C23: after a deleteUser answered OK for user u, no blacklist row and no
\* password-reset token is owned by u, and the rows owned by every other
\* user are as they were.
C23_DeleteUserCascades ==
    [][(Completes("deleteUser") /\ last'.status = "OK")
        => /\ blacklist' = {b \in blacklist : b.user_id # last'.target}
           /\ resetTokens' = {t \in resetTokens : t.user_id # last'.target}
           /\ \A b \in blacklist' : b.user_id # last'.target
           /\ \A t \in resetTokens' : t.user_id # last'.target]_vars
\* A user owning a blacklist row and a reset token has been deleted, and
\* another user's reset token is still in the store.
C23_Witness ==
    /\ last.op = "deleteUser" /\ last.status = "OK" /\ last.rows >= 2
    /\ last.target \notin DOMAIN users
    /\ \E t \in resetTokens : t.user_id # last.target

\* C24: a call of encryptMfaSecret uses a nonce the call before it did not
\* use, so that the blobs differ even for the same secret, and the nonce
\* is the first NonceSize bytes of the blob.
C24_FreshNoncePrefixed ==
    [][Completes("encryptMfaSecret")
        => /\ Len(last'.out) >= NonceSize
           /\ Open(SubSeq(last'.out, 1, NonceSize),
                   SubSeq(last'.out, NonceSize + 1, Len(last'.out))).ok
           /\ last.op = "encryptMfaSecret"
                  => /\ SubSeq(last'.out, 1, NonceSize) # SubSeq(last.out, 1, NonceSize)
                     /\ last'.out # last.out]_vars

\* C25: decryptMfaSecret of what encryptMfaSecret returned for x returns
\* x and no error.
C25_DecryptOfEncrypt ==
    \A x \in Plaintexts :
        (last.op = "decryptMfaSecret" /\ last.args = encryptMfaSecret(x))
            => last.out = [ok |-> TRUE, panic |-> FALSE, secret |-> x]
\* The blob of a two-byte secret has been decrypted.
C25_Witness ==
    /\ last.op = "decryptMfaSecret" /\ last.args = encryptMfaSecret(TotpSecret)
    /\ last.out.secret = TotpSecret

\* C26: decryptMfaSecret of a sealed blob with one byte changed, or cut
\* short (to less than the nonce included), returns an error: it neither
\* panics nor returns plaintext.
C26_DecryptFailsClosed ==
    (last.op = "decryptMfaSecret" /\ last.args \notin Sealed)
        => (~last.out.ok /\ ~last.out.panic /\ last.out.secret = <<>>)

\* C27: validateAccessToken and validateRefreshToken reject every token
\* whose header names an algorithm other than HS256, also when its
\* signature was made with the process signing key.
C27_OnlyHS256 ==
    (last.op \in {"validateAccessToken", "validateRefreshToken"} /\ last.args.alg # "HS256")
        => last.out # "ok"

\* C28: a request during which a store call failed is answered without
\* tokens and not with success; a refresh whose blacklist lookup failed is
\* answered Internal, and neither the blacklist nor a user row changes.
C28_StoreFailureNeverSuccess ==
    [][(last'.seq # last.seq /\ last'.fault)
        => /\ ~HasTokens(last')
           /\ last'.status \notin {"OK", "Found"}
           /\ sessions' = sessions
           /\ (last'.op = "refresh" /\ pc' = pc)
                  => (last'.status = "Internal" /\ blacklist' = blacklist /\ users' = users)]_vars
\* The blacklist lookup of a refresh presenting a valid refresh token of
\* the bearer's subject has failed.
C28_Witness ==
    /\ last.op = "refresh" /\ last.fault /\ last.uid # 0
    /\ validateRefreshToken(last.rt, now) = "ok" /\ last.bearer.id = last.rt.id

\* C29: a refresh presenting a valid refresh token that is not in the
\* blacklist, under a bearer access token that is expired and names the
\* refresh token's subject, returns a pair: the access token is only parsed
\* for its subject.
C29_ExpiredAccessTokenRefreshes ==
    [][(/\ Completes("refresh") /\ ~last'.fault
        /\ parseToken(last'.bearer, now) = "ok"
        /\ validateAccessToken(last'.bearer, now) = "err"
        /\ last'.bearer.sig = SigningKey /\ last'.bearer.exp <= now
        /\ validateRefreshToken(last'.rt, now) = "ok"
        /\ last'.bearer.id = last'.rt.id
        /\ last'.rt.id \in DOMAIN users
        /\ [user_id |-> last'.rt.id, token |-> last'.rt] \notin blacklist)
        => (last'.status = "OK" /\ HasTokens(last'))]_vars

\* C30: a row of the blacklist stays in it, unchanged, in every later
\* state, whatever operation runs, unless the user it belongs to is deleted.
C30_BlacklistOnlyGrows ==
    [][\A b \in blacklist : b \in blacklist' \/ b.user_id \notin DOMAIN users']_vars
\* A refresh has replayed a blacklisted token and been refused, the account
\* is deactivated, and the row is still in the blacklist.
C30_Witness ==
    /\ last.op = "refresh" /\ last.status = "Forbidden" /\ last.uid \in DOMAIN users
    /\ ~users[last.uid].active
    /\ [user_id |-> last.uid, token |-> last.rt] \in blacklist

C32_HonestClientKeepsRefreshing ==
    [][\A s \in sessions :
        (/\ Completes("refresh") /\ ~last'.fault /\ last'.first
         /\ last'.bearer = generateAccessToken(s[1], s[2])
         /\ last'.rt = generateRefreshToken(s[1], s[2])
         /\ \A s2 \in sessions : s2[1] = s[1] => s2[2] <= s[2]
         /\ validateRefreshToken(last'.rt, now) = "ok"
         /\ s[1] \in DOMAIN users /\ users[s[1]].active)
        => (/\ last'.status = "OK" /\ HasTokens(last')
            /\ s[1] \in DOMAIN users' /\ users'[s[1]].active)]_vars

\* C33: a request behind userAuth whose bearer token is of type REFRESH is
\* answered Forbidden by the middleware; the handler does not run.
C33_RefreshTokenIsNoAccessToken ==
    (last.op \in {"confirmMfa", "deleteUser"} /\ last.bearer.type = RefreshTokenType)
        => last.status = "Forbidden"

\* C34: no request is answered with tokens for a user whose active flag is
\* false when the answer is made: login, loginMfa, recovery login and
\* refresh all fail for a deactivated user.
C34_InactiveUserGetsNoTokens ==
    [][(last'.seq # last.seq /\ HasTokens(last') /\ last'.uid \in DOMAIN users)
        => users[last'.uid].active]_vars

\* C35: a request behind userAuth whose access token is correctly signed
\* and unexpired is rejected when the token's subject is inactive
\* (Forbidden) or has no row any more (NotFound); the handler does not
\* run, so the store is left as it was.
C35_AuthRejectsInactiveOrGone ==
    [][(/\ last'.seq # last.seq /\ last'.op \in {"confirmMfa", "deleteUser"}
        /\ last'.bearer.form # "none" /\ validateAccessToken(last'.bearer, now) = "ok"
        /\ (last'.bearer.id \in DOMAIN users => ~users[last'.bearer.id].active))
        => (/\ last'.status \in {"Forbidden", "NotFound"}
            /\ (last'.bearer.id \in DOMAIN users /\ ~last'.fault)
                    => last'.status = "Forbidden"
            /\ last'.bearer.id \notin DOMAIN users => last'.status = "NotFound"
            /\ users' = users /\ blacklist' = blacklist /\ resetTokens' = resetTokens
            /\ rng' = rng)]_vars
\* A request behind userAuth carrying the valid access token of a
\* deactivated user has been refused.
C35_Witness ==
    /\ last.op \in {"confirmMfa", "deleteUser"} /\ last.status = "Forbidden"
    /\ validateAccessToken(last.bearer, now) = "ok" /\ last.bearer.type # RefreshTokenType
    /\ last.bearer.id \in DOMAIN users /\ ~users[last.bearer.id].active

\* C36: a user's active flag goes from true to false only in the step that
\* completes a refresh presenting a valid refresh token of that user that
\* is in the blacklist for that user; that step changes no other user's
\* row and no row of the blacklist.
C36_DeactivationOnlyByReplay ==
    [][\A u \in DOMAIN users :
        (users[u].active /\ u \in DOMAIN users' /\ ~users'[u].active)
        => (/\ Completes("refresh") /\ last'.uid = u /\ last'.rt.id = u
            /\ validateRefreshToken(last'.rt, now) = "ok"
            /\ [user_id |-> u, token |-> last'.rt] \in blacklist
            /\ DOMAIN users' = DOMAIN users
            /\ \A v \in DOMAIN users \ {u} : users'[v] = users[v]
            /\ blacklist' = blacklist)]_vars
\* A replay has deactivated one account while another account is active.
C36_Witness ==
    /\ last.op = "refresh" /\ last.status = "Forbidden" /\ last.rt \in Blacklisted
    /\ last.uid \in DOMAIN users /\ ~users[last.uid].active
    /\ \E v \in DOMAIN users : v # last.uid /\ users[v].active

\* C37: once two recovery logins of one user with two different codes have
\* both succeeded and neither is in flight any more, the user's stored
\* recovery codes contain neither of the two codes.
C37_NoLostCodeRemoval ==
    \A a \in consumed, b \in consumed :
        (/\ a[1] = b[1] /\ a[2] # b[2] /\ a[1] \in DOMAIN users
         /\ \A p \in Procs : pc[p] # "recovery")
        => (/\ ~isRecoveryCodeValid(a[2], users[a[1]].recovery)
            /\ ~isRecoveryCodeValid(b[2], users[a[1]].recovery))

\* C38: a password reset that has written the password (it is past
\* SetPassword when it is answered) reports success, and the token it
\* presented is no longer in the store; a reset that does not report
\* success has not written the password.
C38_FailedResetLeavesPassword ==
    [][Completes("reset")
        => \A p \in Procs :
              (pc'[p] # pc[p] /\ pc[p] = "reset_delete")
              => (/\ last'.status = "OK"
                  /\ ~\E r \in resetTokens' : r.token = last'.prt)]_vars

\* C39: a refresh whose tokens name a user that has been deleted is
\* answered without tokens, whether the presented refresh token was issued
\* to that user or had been redeemed before the deletion; no session is
\* issued and the blacklist gains no row.
C39_NoRefreshForDeletedUser ==
    [][(Completes("refresh") /\ last'.rt.form = "jwt" /\ last'.rt.id \notin DOMAIN users)
        => (/\ ~HasTokens(last') /\ sessions' = sessions
            /\ blacklist' = blacklist)]_vars
\* A refresh presenting the valid tokens of a deleted user has reached the
\* blacklist lookup and been answered.
C39_Witness ==
    /\ last.op = "refresh" /\ last.uid # 0 /\ ~last.fault
    /\ last.uid \notin DOMAIN users /\ last.uid < nextUserId
    /\ validateRefreshToken(last.rt, now) = "ok" /\ last.bearer.id = last.rt.id

====
